---- MODULE Spec2Model ----
(***************************************************************************)
(* Model of app_apogee.py: the CSV loader (nettoyer_liste,                 *)
(* charger_donnees) and the script body that Streamlit re-runs on every    *)
(* interaction (filters, metrics, tabs, export).                           *)
(*                                                                         *)
(* A Python str is modelled as a sequence of one-character strings, a      *)
(* Python list as a sequence, and pandas' missing value NaN as the         *)
(* distinguished value NaN below.                                          *)
(***************************************************************************)
EXTENDS Integers, Sequences, FiniteSets, TLC

VARIABLES
    texte,                    \* nettoyer_liste: the cell handed to the function
    elements,                 \* nettoyer_liste: the list it returned
    appele,                   \* nettoyer_liste: TRUE once it has returned for texte
    uploaded_file,            \* the file in the sidebar uploader, or NoFile
    etablissements,           \* value of the institution multiselect
    privileges_selectionnes,  \* value of the privilege multiselect
    privileges_a_afficher,    \* value of the chart multiselect of tab 2
    df,                       \* what charger_donnees returned in the last run
    df_filtre,                \* the filtered frame of the last run
    erreur,                   \* how the last run of the script ended
    rendered,                 \* the elements the last run put on the page
    metric_users,             \* the number shown as "Nombre d'utilisateurs"
    users_par_etab,           \* the per-institution counts of tab 1, in display order
    top_privileges,           \* the top-5 series of tab 2, in display order
    users_tous_sauf_theses,   \* the rows of the second view of tab 3
    export                    \* the file behind the download button, or NoFile

parseVars == <<texte, elements, appele>>

widgetVars == <<etablissements, privileges_selectionnes, privileges_a_afficher>>

pageVars == <<df, df_filtre, erreur, rendered, metric_users, users_par_etab,
              top_privileges, users_tous_sauf_theses, export>>

vars == <<parseVars, uploaded_file, widgetVars, pageVars>>

-----------------------------------------------------------------------------
(* Strings *)

\* numpy.nan, what read_csv stores for an empty field
NaN == <<"NaN">>

\* pd.isna on a scalar
isna(v) == v = NaN

\* the characters str.strip() removes and the regex class \s matches
Whitespace == {" ", "\t"}

\* str.strip(): drop the leading and the trailing whitespace
strip(e) ==
    LET keep == {i \in 1..Len(e) : e[i] \notin Whitespace}
    IN  IF keep = {} THEN <<>>
        ELSE LET lo == CHOOSE i \in keep : \A j \in keep : i <= j
                 hi == CHOOSE i \in keep : \A j \in keep : i >= j
             IN  SubSeq(e, lo, hi)

\* last index of the maximal whitespace run of s that starts at i (\s+ is greedy)
RECURSIVE RunEnd(_, _)
RunEnd(s, i) ==
    IF i + 1 <= Len(s) /\ s[i + 1] \in Whitespace THEN RunEnd(s, i + 1) ELSE i

\* re.split(r',\s+', s) scanning from position i, the current piece starting at start
RECURSIVE re_split_from(_, _, _)
re_split_from(s, i, start) ==
    IF i > Len(s) THEN <<SubSeq(s, start, Len(s))>>
    ELSE IF s[i] = "," /\ i + 1 <= Len(s) /\ s[i + 1] \in Whitespace
         THEN LET j == RunEnd(s, i + 1)
              IN  <<SubSeq(s, start, i - 1)>> \o re_split_from(s, j + 1, j + 1)
         ELSE re_split_from(s, i + 1, start)

re_split(s) == re_split_from(s, 1, 1)

\* [f(x) for x in l]
RECURSIVE MapStrip(_)
MapStrip(l) == IF l = <<>> THEN <<>> ELSE <<strip(Head(l))>> \o MapStrip(Tail(l))

\* [e for e in l if e]
RECURSIVE NonEmpty(_)
NonEmpty(l) ==
    IF l = <<>> THEN <<>>
    ELSE IF Head(l) # <<>> THEN <<Head(l)>> \o NonEmpty(Tail(l))
         ELSE NonEmpty(Tail(l))

\* a plausible slip: splitting on every comma
RECURSIVE SplitEveryComma(_, _, _)
SplitEveryComma(s, i, start) ==
    IF i > Len(s) THEN <<SubSeq(s, start, Len(s))>>
    ELSE IF s[i] = ","
         THEN <<SubSeq(s, start, i - 1)>> \o SplitEveryComma(s, i + 1, i + 1)
         ELSE SplitEveryComma(s, i + 1, start)

nettoyer_liste_virgule(t) ==
    IF isna(t) THEN <<>> ELSE NonEmpty(MapStrip(SplitEveryComma(t, 1, 1)))

nettoyer_liste(t) ==
    IF isna(t) THEN <<>> ELSE NonEmpty(MapStrip(re_split(t)))

-----------------------------------------------------------------------------
(* Tables: the CSV file, read_csv, charger_donnees, to_csv *)

ColNom == "Nom & Prenom"
ColEmail == "Email"
ColEtab == "Etablissement"
ColPrivRaw == "Privilèges APOGEE"
ColCG == "Centre Gestion"
ColCT == "Centre Traitement"
ColPrivileges == "Privileges"
ColCentresGestion == "Centres_Gestion"
ColCentresTraitement == "Centres_Traitement"

\* the columns charger_donnees adds to the frame
Derived == {ColPrivileges, ColCentresGestion, ColCentresTraitement}

\* the literal 'Théses HDR' of the script
ThesesHDR == <<"T", "h", "é", "s", "e", "s", " ", "H", "D", "R">>

\* uploaded_file is None / the download button was not reached
NoFile == [header |-> {}, rows |-> <<>>, none |-> TRUE]

\* the None that charger_donnees returns on an exception
None == [columns |-> {}, rows |-> <<>>, none |-> TRUE]

\* pd.read_csv: a file is its header and, per row, the text of each field
\* (the quoting that protects commas inside a field is undone by the reader
\* and redone by the writer, so a field stands for its unquoted text);
\* an empty field is read as NaN, any other field as the string it holds.
\* The fields explored hold no digits-only text, which pandas would read
\* as numbers.
read_csv(f) ==
    [columns |-> f.header,
     rows |-> [i \in 1..Len(f.rows) |->
                 [c \in f.header |->
                     IF f.rows[i][c] = <<>> THEN NaN ELSE f.rows[i][c]]]]

\* the three assignments of charger_donnees on one row
WithLists(cols, r) ==
    [c \in cols \cup Derived |->
        CASE c = ColPrivileges -> nettoyer_liste(r[ColPrivRaw])
          [] c = ColCentresGestion -> nettoyer_liste(r[ColCG])
          [] c = ColCentresTraitement -> nettoyer_liste(r[ColCT])
          [] OTHER -> r[c]]

\* charger_donnees: df[...] of an absent column raises KeyError inside the
\* try, the except reports it and returns None
charger_donnees(f) ==
    LET d == read_csv(f)
    IN  IF {ColPrivRaw, ColCG, ColCT} \subseteq d.columns
        THEN [columns |-> d.columns \cup Derived,
              rows |-> [i \in 1..Len(d.rows) |-> WithLists(d.columns, d.rows[i])]]
        ELSE None

\* ", ".join(repr(e) for e in l)
RECURSIVE JoinRepr(_)
JoinRepr(l) ==
    IF l = <<>> THEN <<>>
    ELSE <<"'">> \o Head(l) \o <<"'">>
         \o (IF Len(l) > 1 THEN <<",", " ">> ELSE <<>>) \o JoinRepr(Tail(l))

\* str(list), what to_csv writes for a cell that holds a Python list
repr_list(l) == <<"[">> \o JoinRepr(l) \o <<"]">>

\* to_csv of one cell: NaN as the empty field, a list by str(), a string as is
csv_field(c, v) ==
    IF c \in Derived THEN repr_list(v)
    ELSE IF isna(v) THEN <<>> ELSE v

\* DataFrame.to_csv(index=False)
to_csv(d) ==
    [header |-> d.columns,
     rows |-> [i \in 1..Len(d.rows) |->
                 [c \in d.columns |-> csv_field(c, d.rows[i][c])]]]

-----------------------------------------------------------------------------
(* pandas and Python primitives the script uses *)

\* Python's order on characters (code points), for the characters of the names
CharOrder == <<" ", ",", "A", "B", "D", "G", "H", "I", "R", "T", "U",
               "e", "h", "i", "n", "s", "é">>

Rank(ch) == CHOOSE i \in 1..Len(CharOrder) : CharOrder[i] = ch

\* a < b on Python strings
StrLess(a, b) ==
    \E k \in 1..(Len(a) + 1) :
        /\ \A j \in 1..(k - 1) : j <= Len(b) /\ a[j] = b[j]
        /\ k <= Len(b)
        /\ (k > Len(a) \/ Rank(a[k]) < Rank(b[k]))

\* the values of a sequence
Range(s) == {s[i] : i \in 1..Len(s)}

\* df[c] as the sequence of its cells
Column(d, c) == [i \in 1..Len(d.rows) |-> d.rows[i][c]]

\* Series.unique(): the distinct values in order of first appearance, NaN included
RECURSIVE unique(_)
unique(s) ==
    IF s = <<>> THEN <<>>
    ELSE LET u == unique(SubSeq(s, 1, Len(s) - 1))
             x == s[Len(s)]
         IN  IF x \in Range(u) THEN u ELSE Append(u, x)

\* a plausible slip: NaN compared with ==, so that it is never a member
isin_sans_nan(v, values) == v \in values /\ v # NaN

\* Series.isin(values) on one cell; NaN is a member when values holds NaN
isin(v, values) == v \in values

\* the rows from index i on whose entry in the boolean series mask is TRUE
RECURSIVE MaskedFrom(_, _, _)
MaskedFrom(rows, mask, i) ==
    IF i > Len(rows) THEN <<>>
    ELSE (IF mask[i] THEN <<rows[i]>> ELSE <<>>) \o MaskedFrom(rows, mask, i + 1)

\* df[mask]: the rows of d where the boolean series mask is TRUE, in order
Select(d, mask) == [columns |-> d.columns, rows |-> MaskedFrom(d.rows, mask, 1)]

\* [p for sublist in l for p in sublist]
RECURSIVE Flatten(_)
Flatten(l) == IF l = <<>> THEN <<>> ELSE Head(l) \o Flatten(Tail(l))

\* number of cells of s equal to v
RECURSIVE CountOf(_, _)
CountOf(s, v) ==
    IF s = <<>> THEN 0
    ELSE (IF Head(s) = v THEN 1 ELSE 0) + CountOf(Tail(s), v)

\* insert the pair e after every pair whose count is at least e's
RECURSIVE InsertDesc(_, _)
InsertDesc(sorted, e) ==
    IF sorted = <<>> THEN <<e>>
    ELSE IF Head(sorted)[2] >= e[2]
         THEN <<Head(sorted)>> \o InsertDesc(Tail(sorted), e)
         ELSE <<e>> \o sorted

RECURSIVE SortDesc(_)
SortDesc(pairs) ==
    IF pairs = <<>> THEN <<>>
    ELSE InsertDesc(SortDesc(SubSeq(pairs, 1, Len(pairs) - 1)), pairs[Len(pairs)])

\* Series.value_counts(): NaN dropped (dropna=True), one <<value, count>> per
\* distinct value, counted in order of first appearance and then sorted by
\* descending count with an order-preserving sort, so that equal counts stay
\* in order of first appearance
value_counts(s) ==
    LET vals == SelectSeq(s, LAMBDA v : ~isna(v))
        keys == unique(vals)
    IN  SortDesc([i \in 1..Len(keys) |-> <<keys[i], CountOf(vals, keys[i])>>])

\* Series.head(n)
head(s, n) == SubSeq(s, 1, IF Len(s) < n THEN Len(s) ELSE n)

-----------------------------------------------------------------------------
(* The script body: one run per interaction *)

\* the 5 of value_counts().head(5)
TopK == 5

\* the 3 of privileges_etab.columns[:3]
DefaultShown == 3

\* the rows of d whose institution is selected
FiltreEtablissements(d, S) ==
    Select(d, [i \in 1..Len(d.rows) |-> isin(d.rows[i][ColEtab], S)])

\* a plausible slip: all() instead of any() in the privilege filter
FiltrePrivilegesTous(d, P) ==
    Select(d, [i \in 1..Len(d.rows) |->
                  \A p \in P : p \in Range(d.rows[i][ColPrivileges])])

\* any(p in x for p in P) over the rows of d
FiltrePrivileges(d, P) ==
    Select(d, [i \in 1..Len(d.rows) |->
                  \E p \in P : p \in Range(d.rows[i][ColPrivileges])])

\* a plausible slip: the filters assigned to df itself
AppliquerFiltresEnPlace(d, S, P) ==
    LET f1 == FiltreEtablissements(d, S)
        f2 == IF P # {} THEN FiltrePrivileges(f1, P) ELSE f1
    IN  [df |-> f2, df_filtre |-> f2]

\* "Appliquer les filtres": the names df and df_filtre after the block
AppliquerFiltres(d, S, P) ==
    LET f1 == FiltreEtablissements(d, S)
        f2 == IF P # {} THEN FiltrePrivileges(f1, P) ELSE f1
    IN  [df |-> d, df_filtre |-> f2]

\* options of the institution multiselect, also its default
OptionsEtablissements(d) == Range(unique(Column(d, ColEtab)))

\* options of the privilege multiselect
OptionsPrivileges(d) == Range(Flatten(Column(d, ColPrivileges)))

\* insert the pair e by descending count, equal counts by ascending name
RECURSIVE InsertParNom(_, _)
InsertParNom(sorted, e) ==
    IF sorted = <<>> THEN <<e>>
    ELSE IF Head(sorted)[2] > e[2]
            \/ (Head(sorted)[2] = e[2] /\ StrLess(Head(sorted)[1], e[1]))
         THEN <<Head(sorted)>> \o InsertParNom(Tail(sorted), e)
         ELSE <<e>> \o sorted

RECURSIVE TrierParNom(_)
TrierParNom(pairs) ==
    IF pairs = <<>> THEN <<>>
    ELSE InsertParNom(TrierParNom(Tail(pairs)), Head(pairs))

\* a plausible slip: equal counts put in order of name
UsersParEtabParNom(f) == TrierParNom(value_counts(Column(f, ColEtab)))

\* users_par_etab
UsersParEtab(f) == value_counts(Column(f, ColEtab))

\* a plausible slip: head(5) left out
TopPrivilegesSansHead(f) == value_counts(Flatten(Column(f, ColPrivileges)))

\* top_privileges
TopPrivileges(f) == head(value_counts(Flatten(Column(f, ColPrivileges))), TopK)

\* the columns of privileges_etab: explode, then groupby, which drops the
\* rows whose institution or privilege is NaN
ColonnesPrivilegesEtab(f) ==
    UNION {Range(f.rows[i][ColPrivileges]) :
              i \in {j \in 1..Len(f.rows) : ~isna(f.rows[j][ColEtab])}}

\* columns[:n] of the sorted columns
Premieres(cols, n) == {x \in cols : Cardinality({y \in cols : StrLess(y, x)}) < n}

\* users_theses_hdr
UsersThesesHDR(f) ==
    Select(f, [i \in 1..Len(f.rows) |-> ThesesHDR \in Range(f.rows[i][ColPrivileges])])

\* a plausible slip: the universe taken from the filtered frame
TousPrivilegesFiltre(d, f) == OptionsPrivileges(f) \ {ThesesHDR}

\* tous_privileges: the privileges of the whole frame but 'Théses HDR'
TousPrivileges(d, f) == OptionsPrivileges(d) \ {ThesesHDR}

\* users_tous_sauf_theses
UsersTousSaufTheses(d, f) ==
    Select(f, [i \in 1..Len(f.rows) |->
                  \A priv \in TousPrivileges(d, f) : priv \in Range(f.rows[i][ColPrivileges])])

\* what a run leaves behind
Page(err, rend, d, f, n, upe, top, tous, exp) ==
    [erreur |-> err, rendered |-> rend, df |-> d, df_filtre |-> f,
     metric_users |-> n, users_par_etab |-> upe, top_privileges |-> top,
     users_tous_sauf_theses |-> tous, export |-> exp]

\* The pages one run of the script can leave for the file f with the widget
\* values S, P and A (A was chosen among the chart options Aopts and is kept
\* while the options stay the same).  Series.plot(kind='barh') on an empty
\* series raises or draws an empty chart depending on the plotting library
\* in use, so that a run with no privilege to plot has both outcomes.
Script(f, S, P, A, Aopts) ==
    IF f = NoFile
    THEN {Page("ok", {"info_upload"}, None, None, 0, <<>>, <<>>, <<>>, NoFile)}
    ELSE
    LET d0 == charger_donnees(f)
    IN
    IF d0 = None
    THEN {Page("ParseError", {"st_error"}, None, None, 0, <<>>, <<>>, <<>>, NoFile)}
    ELSE IF ColEtab \notin d0.columns
    THEN {Page("KeyError", {}, d0, None, 0, <<>>, <<>>, <<>>, NoFile)}
    ELSE
    LET ff == AppliquerFiltres(d0, S, P)
        d == ff.df
        fl == ff.df_filtre
        n == Len(fl.rows)
        upe == UsersParEtab(fl)
        top == TopPrivileges(fl)
        opts == ColonnesPrivilegesEtab(fl)
        shown == IF opts = Aopts THEN A ELSE Premieres(opts, DefaultShown)
        hdr == UsersThesesHDR(fl)
        tous == UsersTousSaufTheses(d, fl)
        etabs == Range(unique(Column(fl, ColEtab)))
        r1 == {"filtre_etablissements", "filtre_privileges", "metrics",
               "pie", "table_etab"}
        r2 == r1 \cup {"barh", "select_afficher"}
                 \cup (IF shown # {} THEN {"stacked"} ELSE {"warning"})
        r3a == r2 \cup (IF hdr.rows # <<>> THEN {"table_hdr"} ELSE {"info_hdr"})
        r3 == r3a \cup (IF tous.rows # <<>> THEN {"table_tous"} ELSE {"info_tous"})
        r4 == r3 \cup (IF etabs # {} THEN {"expanders"} ELSE {})
        reste ==
            IF hdr.rows # <<>> /\ ColNom \notin fl.columns
            THEN Page("KeyError", r2, d, fl, n, upe, top, <<>>, NoFile)
            ELSE IF tous.rows # <<>> /\ ColNom \notin fl.columns
            THEN Page("KeyError", r3a, d, fl, n, upe, top, tous.rows, NoFile)
            ELSE IF NaN \in etabs /\ etabs # {NaN}
            THEN Page("TypeError", r3, d, fl, n, upe, top, tous.rows, NoFile)
            ELSE IF etabs # {} /\ ~({ColNom, ColEmail} \subseteq fl.columns)
            THEN Page("KeyError", r3, d, fl, n, upe, top, tous.rows, NoFile)
            ELSE Page("ok", r4 \cup {"download"}, d, fl, n, upe, top, tous.rows, to_csv(fl))
    IN  {reste} \cup (IF top = <<>>
                      THEN {Page("IndexError", r1, d, fl, n, upe, top, <<>>, NoFile)}
                      ELSE {})

-----------------------------------------------------------------------------
(* The session: upload, the three multiselects, removing the file *)

\* rows of an uploaded file that has every required column
MaxRows == 2

\* rows of an uploaded file that lacks one required column
MaxRowsMissing == 1

Str_n == <<"n">>
Str_e == <<"e">>
UniA == <<"U", "n", "i", "A">>
UniB == <<"U", "n", "i", "B">>
Gestion == <<"G">>
Inscription == <<"I">>

Required == {ColNom, ColEmail, ColEtab, ColPrivRaw, ColCG, ColCT}

\* the fields of the institution column: two names and the empty field
EtabFields == {UniA, UniB, <<>>}

\* the fields of the privilege column
PrivFields == {<<>>, ThesesHDR, Gestion \o <<",", " ">> \o Inscription}

\* a full row of the file
FileRow(e, p) ==
    [c \in Required |->
        CASE c = ColNom -> Str_n
          [] c = ColEmail -> Str_e
          [] c = ColEtab -> e
          [] c = ColPrivRaw -> p
          [] c = ColCG -> <<"c", ",", " ", "d">>
          [] c = ColCT -> <<>>]

FileRows == {FileRow(e, p) : e \in EtabFields, p \in PrivFields}

\* the headers: all the required columns, or all but one
Headers == {Required} \cup {Required \ {c} : c \in Required}

Restrict(r, h) == [c \in h |-> r[c]]

RowsUpTo(n) == UNION {[1..k -> FileRows] : k \in 0..n}

File(h, rs) == [header |-> h, rows |-> [i \in 1..Len(rs) |-> Restrict(rs[i], h)]]

Files ==
    {File(Required, rs) : rs \in RowsUpTo(MaxRows)}
    \cup {File(h, rs) : h \in Headers, rs \in RowsUpTo(MaxRowsMissing)}

SetPage(pg) ==
    /\ df' = pg.df
    /\ df_filtre' = pg.df_filtre
    /\ erreur' = pg.erreur
    /\ rendered' = pg.rendered
    /\ metric_users' = pg.metric_users
    /\ users_par_etab' = pg.users_par_etab
    /\ top_privileges' = pg.top_privileges
    /\ users_tous_sauf_theses' = pg.users_tous_sauf_theses
    /\ export' = pg.export

\* the options of the two sidebar multiselects of the page on display
CurrentEtablissements ==
    IF "filtre_etablissements" \in rendered THEN OptionsEtablissements(df) ELSE {}

CurrentPrivileges ==
    IF "filtre_privileges" \in rendered THEN OptionsPrivileges(df) ELSE {}

\* the chart options of the page on display
CurrentChartOptions ==
    IF "select_afficher" \in rendered THEN ColonnesPrivilegesEtab(df_filtre) ELSE {}

ParseIdle ==
    /\ texte = NaN
    /\ elements = <<>>
    /\ appele = FALSE

\* no file in the uploader, the page of the else branch
AppIdle ==
    /\ uploaded_file = NoFile
    /\ etablissements = {}
    /\ privileges_selectionnes = {}
    /\ privileges_a_afficher = {}
    /\ df = None
    /\ df_filtre = None
    /\ erreur = "ok"
    /\ rendered = {"info_upload"}
    /\ metric_users = 0
    /\ users_par_etab = <<>>
    /\ top_privileges = <<>>
    /\ users_tous_sauf_theses = <<>>
    /\ export = NoFile

Init == ParseIdle /\ AppIdle

\* the values the widgets take in the run pg: the defaults of the script
\* where the widget is new, nothing where the run did not reach the widget
WidgetsAfter(pg, S, P) ==
    /\ etablissements' = IF "filtre_etablissements" \in pg.rendered THEN S ELSE {}
    /\ privileges_selectionnes' = IF "filtre_privileges" \in pg.rendered THEN P ELSE {}

ChartAfter(pg, A, Aopts) ==
    privileges_a_afficher' =
        IF "select_afficher" \in pg.rendered
        THEN (IF ColonnesPrivilegesEtab(pg.df_filtre) = Aopts THEN A
              ELSE Premieres(ColonnesPrivilegesEtab(pg.df_filtre), DefaultShown))
        ELSE {}

\* default= of the institution multiselect for the file f
DefaultEtablissements(f) ==
    LET d == charger_donnees(f)
    IN  IF d # None /\ ColEtab \in d.columns THEN OptionsEtablissements(d) ELSE {}

\* a file is chosen in the uploader: first run, every widget at its default
Upload(f) ==
    /\ uploaded_file = NoFile
    /\ uploaded_file' = f
    /\ \E pg \in Script(f, DefaultEtablissements(f), {}, {}, {<<"none">>}) :
           /\ SetPage(pg)
           /\ WidgetsAfter(pg, DefaultEtablissements(f), {})
           /\ ChartAfter(pg, {}, {<<"none">>})
    /\ UNCHANGED parseVars

\* s with the option x added if absent, removed if present
Toggle(s, x) == IF x \in s THEN s \ {x} ELSE s \cup {x}

\* one option of the institution multiselect is added or removed
SelectEtablissements(e) ==
    /\ e \in CurrentEtablissements
    /\ \E pg \in Script(uploaded_file, Toggle(etablissements, e), privileges_selectionnes,
                        privileges_a_afficher, CurrentChartOptions) :
           /\ SetPage(pg)
           /\ WidgetsAfter(pg, Toggle(etablissements, e), privileges_selectionnes)
           /\ ChartAfter(pg, privileges_a_afficher, CurrentChartOptions)
    /\ UNCHANGED <<parseVars, uploaded_file>>

\* one option of the privilege multiselect is added or removed
SelectPrivileges(p) ==
    /\ p \in CurrentPrivileges
    /\ \E pg \in Script(uploaded_file, etablissements, Toggle(privileges_selectionnes, p),
                        privileges_a_afficher, CurrentChartOptions) :
           /\ SetPage(pg)
           /\ WidgetsAfter(pg, etablissements, Toggle(privileges_selectionnes, p))
           /\ ChartAfter(pg, privileges_a_afficher, CurrentChartOptions)
    /\ UNCHANGED <<parseVars, uploaded_file>>

\* one option of the chart multiselect of tab 2 is added or removed
SelectAfficher(p) ==
    /\ p \in CurrentChartOptions
    /\ \E pg \in Script(uploaded_file, etablissements, privileges_selectionnes,
                        Toggle(privileges_a_afficher, p), CurrentChartOptions) :
           /\ SetPage(pg)
           /\ WidgetsAfter(pg, etablissements, privileges_selectionnes)
           /\ ChartAfter(pg, Toggle(privileges_a_afficher, p), CurrentChartOptions)
    /\ UNCHANGED <<parseVars, uploaded_file>>

\* the file is removed from the uploader: the else branch of the script
RemoveFile ==
    /\ uploaded_file # NoFile
    /\ uploaded_file' = NoFile
    /\ \E pg \in Script(NoFile, {}, {}, {}, {}) :
           /\ SetPage(pg)
           /\ WidgetsAfter(pg, {}, {})
           /\ ChartAfter(pg, {}, {})
    /\ UNCHANGED parseVars

Next ==
    \/ \E f \in Files : Upload(f)
    \/ \E e \in CurrentEtablissements : SelectEtablissements(e)
    \/ \E p \in CurrentPrivileges : SelectPrivileges(p)
    \/ \E p \in CurrentChartOptions : SelectAfficher(p)
    \/ RemoveFile

Spec == Init /\ [][Next]_vars

-----------------------------------------------------------------------------
(* nettoyer_liste on every cell up to a length *)

MaxLen == 4

Alphabet == {",", " ", "\t", "a", "b"}

StringsUpTo(n) == UNION {[1..k -> Alphabet] : k \in 0..n}

Cells == StringsUpTo(MaxLen) \cup {NaN}

InitParse ==
    /\ texte \in Cells
    /\ elements = <<>>
    /\ appele = FALSE
    /\ AppIdle

AppelNettoyer ==
    /\ ~appele
    /\ elements' = nettoyer_liste(texte)
    /\ appele' = TRUE
    /\ UNCHANGED <<texte, uploaded_file, widgetVars, pageVars>>

NextParse == AppelNettoyer

SpecParse == InitParse /\ [][NextParse]_vars

-----------------------------------------------------------------------------
(* C2: nettoyer_liste agrees with the reference parse *)

\* positions of the commas that are immediately followed by whitespace
SplitPoints(c) ==
    {i \in 1..Len(c) : c[i] = "," /\ i < Len(c) /\ c[i + 1] \in Whitespace}

\* the piece that starts right after split point a (0: the start of the cell)
PieceAfter(c, a) ==
    LET later == {i \in SplitPoints(c) : i > a}
        b == IF later = {} THEN Len(c) + 1
             ELSE CHOOSE i \in later : \A j \in later : i <= j
    IN  SubSeq(c, a + 1, b - 1)

IsBlank(e) == \A i \in 1..Len(e) : e[i] \in Whitespace

\* e with its leading and trailing whitespace removed, stated without strip
Trimmed(e, t) ==
    \E lo \in 1..(Len(e) + 1), hi \in 0..Len(e) :
        /\ t = SubSeq(e, lo, hi)
        /\ \A i \in 1..(lo - 1) : e[i] \in Whitespace
        /\ \A i \in (hi + 1)..Len(e) : e[i] \in Whitespace
        /\ (t = <<>> \/ (t[1] \notin Whitespace /\ t[Len(t)] \notin Whitespace))

\* the starts of the pieces that survive, in source order
KeptStarts(c) == {a \in SplitPoints(c) \cup {0} : ~IsBlank(PieceAfter(c, a))}

IsReferenceParse(c, l) ==
    IF c = NaN THEN l = <<>>
    ELSE /\ Len(l) = Cardinality(KeptStarts(c))
         /\ \A k \in 1..Len(l) :
              \E a \in KeptStarts(c) :
                  /\ Cardinality({x \in KeptStarts(c) : x < a}) = k - 1
                  /\ Trimmed(PieceAfter(c, a), l[k])

-----------------------------------------------------------------------------
(* Tab 2 on every filtered frame up to a number of privilege occurrences *)

MaxOcc == 6

\* six privilege names, one more than the chart keeps
TopNames == {ThesesHDR, Gestion, Inscription, <<"A">>, <<"B">>, <<"D">>}

Min(a, b) == IF a < b THEN a ELSE b

\* the filtered frame, reduced to the one column the block reads, whose
\* Privileges column holds, after a row without privileges, the occurrences
\* of flat two to a row
FrameOf(flat) ==
    [columns |-> {ColPrivileges},
     rows |-> <<[c \in {ColPrivileges} |-> <<>>]>>
              \o [i \in 1..((Len(flat) + 1) \div 2) |->
                    [c \in {ColPrivileges} |->
                        SubSeq(flat, 2 * i - 1, Min(2 * i, Len(flat)))]]]

InitTop ==
    /\ ParseIdle
    /\ uploaded_file = NoFile
    /\ etablissements = {}
    /\ privileges_selectionnes = {}
    /\ privileges_a_afficher = {}
    /\ df = None
    /\ df_filtre \in {FrameOf(flat) : flat \in UNION {[1..k -> TopNames] : k \in 0..MaxOcc}}
    /\ erreur = "ok"
    /\ rendered = {}
    /\ metric_users = Len(df_filtre.rows)
    /\ users_par_etab = <<>>
    /\ top_privileges = <<>>
    /\ users_tous_sauf_theses = <<>>
    /\ export = NoFile

\* the run reaches "Top 5 des privilèges"
Top5 ==
    /\ "barh" \notin rendered
    /\ top_privileges' = TopPrivileges(df_filtre)
    /\ rendered' = {"barh"}
    /\ UNCHANGED <<parseVars, uploaded_file, widgetVars, df, df_filtre, erreur,
                   metric_users, users_par_etab, users_tous_sauf_theses, export>>

NextTop == Top5

SpecTop == InitTop /\ [][NextTop]_vars

-----------------------------------------------------------------------------
(* What the claims are stated with *)

\* the sequence of the rows of rows whose index is in K, in order
SubseqOn(rows, K) ==
    [k \in 1..Cardinality(K) |->
        rows[CHOOSE i \in K : Cardinality({j \in K : j <= i}) = k]]

Indices(rows) == 1..Len(rows)

\* the privileges a row holds
Held(r) == {r[ColPrivileges][k] : k \in 1..Len(r[ColPrivileges])}

\* indices of the rows of the loaded frame whose institution is selected
InstKept == {i \in Indices(df.rows) : df.rows[i][ColEtab] \in etablissements}

\* every institution value that occurs in the loaded frame
AllInstitutions == {df.rows[i][ColEtab] : i \in Indices(df.rows)}

FiltersShown == "filtre_etablissements" \in rendered

\* the uploaded file has the six required columns
WellFormed == uploaded_file # NoFile /\ Required \subseteq uploaded_file.header

RECURSIVE SumCounts(_)
SumCounts(pairs) == IF pairs = <<>> THEN 0 ELSE Head(pairs)[2] + SumCounts(Tail(pairs))

\* C1: an uploaded table that lacks one of the six required columns ends in
\* the ParseError outcome: the error is reported, there is no record set and
\* nothing else is on the page.
C1_MissingColumnIsParseError ==
    (uploaded_file # NoFile /\ ~(Required \subseteq uploaded_file.header)) =>
        /\ erreur = "ParseError"
        /\ df = None
        /\ rendered = {"st_error"}

\* C3: the institution filter keeps exactly the rows whose institution is
\* selected, in source order; nothing for the empty selection, every row
\* (a row with a missing institution included) when every institution that
\* occurs is selected.
C3_InstitutionFilter ==
    FiltersShown =>
        /\ \A k \in Indices(df_filtre.rows) : df_filtre.rows[k][ColEtab] \in etablissements
        /\ privileges_selectionnes = {} => df_filtre.rows = SubseqOn(df.rows, InstKept)
        /\ etablissements = {} => df_filtre.rows = <<>>
        /\ (privileges_selectionnes = {} /\ etablissements = AllInstitutions)
              => df_filtre.rows = df.rows

\* every institution selected, one of them the missing one, and all rows kept
C3_Witness ==
    /\ FiltersShown
    /\ privileges_selectionnes = {}
    /\ NaN \in etablissements
    /\ etablissements = AllInstitutions
    /\ Len(df.rows) = 2
    /\ df_filtre.rows = df.rows
    /\ \E i \in Indices(df.rows) : df.rows[i][ColEtab] # NaN

\* C4: with no privilege selected the privilege filter returns the
\* institution-filtered rows unchanged; otherwise it keeps exactly those of
\* them that hold at least one selected privilege, in source order.
C4_PrivilegeFilter ==
    FiltersShown =>
        IF privileges_selectionnes = {}
        THEN df_filtre.rows = SubseqOn(df.rows, InstKept)
        ELSE df_filtre.rows =
                SubseqOn(df.rows,
                         {i \in InstKept : Held(df.rows[i]) \cap privileges_selectionnes # {}})

\* two privileges selected, the row that holds them kept, the row without
\* privileges, of a selected institution, dropped
C4_Witness ==
    /\ FiltersShown
    /\ Cardinality(privileges_selectionnes) = 2
    /\ Len(df.rows) = 2
    /\ Len(df_filtre.rows) = 1
    /\ Held(df_filtre.rows[1]) \cap privileges_selectionnes # {}
    /\ \E i \in InstKept : Held(df.rows[i]) = {}

\* C5: re-parsing the downloaded file with charger_donnees gives, row for
\* row, the parsed lists and the three plain fields of the exported rows,
\* and each list column of the download reads back, by the comma rule of
\* nettoyer_liste, as the list it was written from.
C5_ExportRoundTrip ==
    (WellFormed /\ "download" \in rendered) =>
        LET again == charger_donnees(export)
        IN  /\ again # None
            /\ Len(again.rows) = Len(df_filtre.rows)
            /\ \A i \in Indices(df_filtre.rows) :
                 /\ \A c \in Derived \cup {ColNom, ColEmail, ColEtab} :
                        again.rows[i][c] = df_filtre.rows[i][c]
                 /\ \A c \in Derived :
                        nettoyer_liste(export.rows[i][c]) = df_filtre.rows[i][c]

\* C6: the per-institution counts of tab 1 sum to the number shown as
\* "Nombre d'utilisateurs", the length of the filtered frame.
C6_CountsSumToLen ==
    (WellFormed /\ "table_etab" \in rendered) =>
        /\ metric_users = Len(df_filtre.rows)
        /\ SumCounts(users_par_etab) = metric_users

\* index of the first row of the filtered frame with institution v
FirstRowOf(v) ==
    CHOOSE i \in Indices(df_filtre.rows) :
        /\ df_filtre.rows[i][ColEtab] = v
        /\ \A j \in 1..(i - 1) : df_filtre.rows[j][ColEtab] # v

Universe == UNION {Held(df.rows[i]) : i \in Indices(df.rows)} \ {ThesesHDR}

TousShown == rendered \cap {"table_tous", "info_tous"} # {}

C9_WitnessEmptyUniverse ==
    /\ TousShown
    /\ Universe = {}
    /\ Len(df_filtre.rows) = 2
    /\ users_tous_sauf_theses = df_filtre.rows
    /\ \E i \in Indices(df_filtre.rows) : Held(df_filtre.rows[i]) = {}

\* C10: while the same file stays loaded, no run changes the parsed frame:
\* it is what charger_donnees made of the file, rows, order and lists.
C10_SourceUnchanged ==
    /\ [](FiltersShown => df = charger_donnees(uploaded_file))
    /\ [][(uploaded_file' = uploaded_file /\ df # None) => df' = df]_vars

\* both filters have narrowed the view and the parsed frame still has its rows
C10_Witness ==
    /\ FiltersShown
    /\ privileges_selectionnes # {}
    /\ etablissements # AllInstitutions
    /\ Len(df.rows) = 2
    /\ Len(df_filtre.rows) = 1
    /\ df = charger_donnees(uploaded_file)

\* occurrences of p over the Privileges column of the filtered frame
RECURSIVE Occurrences(_, _)
Occurrences(rows, p) ==
    IF rows = <<>> THEN 0
    ELSE Cardinality({k \in 1..Len(Head(rows)[ColPrivileges]) :
                         Head(rows)[ColPrivileges][k] = p})
         + Occurrences(Tail(rows), p)

\* p occurs in the filtered frame before any occurrence of q
SeenBefore(p, q) ==
    \E i \in Indices(df_filtre.rows) :
        \E k \in 1..Len(df_filtre.rows[i][ColPrivileges]) :
            /\ df_filtre.rows[i][ColPrivileges][k] = p
            /\ \A j \in 1..i :
                 \A l \in 1..Len(df_filtre.rows[j][ColPrivileges]) :
                     (j < i \/ l < k) => df_filtre.rows[j][ColPrivileges][l] # q

AllHeld == UNION {Held(df_filtre.rows[i]) : i \in Indices(df_filtre.rows)}

Listed == {top_privileges[i][1] : i \in Indices(top_privileges)}

====
